---- MODULE Spec2Model ----
(***************************************************************************)
(* Model of the plate-generation service (geminiService): cleanText,      *)
(* preprocessImage, checkForExistingPlate, verifyPlateContent and the      *)
(* orchestrating generatePlate with its bounded retry loop.                *)
(*                                                                         *)
(* Strings that the code inspects character by character (model answers,   *)
(* plate numbers) are sequences of one-character strings.  A data URL      *)
(* "data:<mime>;base64,<payload>" is the record [mime, data].  Each await  *)
(* of generatePlate is one suspension point: an action runs the code from  *)
(* the settlement of one awaited call up to the next awaited call.         *)
(* The progress callback, when supplied, is one that returns normally.     *)
(***************************************************************************)
EXTENDS Integers, Sequences, FiniteSets, Bags, TLC

VARIABLES
    apiKey,             \* process.env.API_KEY is set (module constant of the service)
    pc,                 \* position of the generatePlate invocation
    imageBase64,        \* argument: the source image (data URL)
    plateNumber,        \* argument: expected plate text
    plateCountry,       \* argument: style descriptor
    mode,               \* argument: "add" | "replace"
    onProgress,         \* argument: TRUE iff a progress callback was supplied
    skipDetection,      \* argument
    processedImage,     \* local: result of preprocessImage
    attempt,            \* local: loop counter
    generatedImageUrl,  \* local: image of the current attempt
    lastGeneratedImage, \* local: fallback slot
    lastError,          \* local: last captured error
    result,             \* the returned image (pc = "done")
    thrown,             \* the error the invocation failed with (pc = "failed")
    trace,              \* history: progress events, external calls and their settlements
    attempts,           \* history: per finished attempt, what it produced
    call,               \* a helper function applied on its own: its name and arguments
    ret,                \* what that application returned
    state,              \* App: the CarPlateState held by useState
    showConfirmation,   \* App: the confirmation dialog is open
    inflight,           \* App: the generatePlate calls that have not settled (a bag of requests)
    lastEvent           \* App history: the handler that ran last

vars == <<apiKey, pc, imageBase64, plateNumber, plateCountry, mode, onProgress,
          skipDetection, processedImage, attempt, generatedImageUrl,
          lastGeneratedImage, lastError, result, thrown, trace, attempts, call, ret,
          state, showConfirmation, inflight, lastEvent>>

app == <<state, showConfirmation, inflight, lastEvent>>

(***************************************************************************)
(* Bounds and program constants                                            *)
(***************************************************************************)
MAX_RETRIES_Five == 4 + 1            \* mutant: one retry too many
MAX_RETRIES == 4
ALPHA_THRESHOLD == 250
ALPHA_STRIDE == 16
NumPayloads == 2        \* distinct image payloads the generation model may return
MaxDetectLen == 5       \* longest detector answer
MaxPlateLen == 5        \* longest plate text and longest verifier answer
MaxPixels == 5          \* pixels of a decoded image

(***************************************************************************)
(* Characters and strings                                                  *)
(***************************************************************************)
UpperOf == [a |-> "A", b |-> "B", c |-> "C", e |-> "E", n |-> "N", o |-> "O", s |-> "S", y |-> "Y"]
LowerChars == DOMAIN UpperOf
UpperChars == {UpperOf[c] : c \in LowerChars}
DigitChars == {"1", "2", "3", "4"}
WhiteChars == {" "}
OtherChars == {"-", "."}
Chars == LowerChars \cup UpperChars \cup DigitChars \cup WhiteChars \cup OtherChars

IsAlnum(c) == c \in LowerChars \cup UpperChars \cup DigitChars

toUpperCaseChar(c) == IF c \in LowerChars THEN UpperOf[c] ELSE c

toUpperCase(s) == [i \in 1..Len(s) |-> toUpperCaseChar(s[i])]

RECURSIVE stripNonAlnum(_)
stripNonAlnum(s) ==
    IF s = <<>> THEN <<>>
    ELSE IF IsAlnum(Head(s)) THEN <<Head(s)>> \o stripNonAlnum(Tail(s))
    ELSE stripNonAlnum(Tail(s))

\* mutant: the letter case is kept
cleanText_KeepCase(text) == stripNonAlnum(text)

\* text.replace(/[^a-zA-Z0-9]/g, '').toUpperCase()
cleanText(text) == toUpperCase(stripNonAlnum(text))

RECURSIVE trimStart(_)
trimStart(s) ==
    IF s # <<>> /\ Head(s) \in WhiteChars THEN trimStart(Tail(s)) ELSE s

RECURSIVE trimEnd(_)
trimEnd(s) ==
    IF s # <<>> /\ s[Len(s)] \in WhiteChars THEN trimEnd(SubSeq(s, 1, Len(s) - 1)) ELSE s

trim(s) == trimEnd(trimStart(s))

\* mutant: the characters of sub need not be adjacent in s
RECURSIVE includes_Scattered(_, _)
includes_Scattered(s, sub) ==
    IF sub = <<>> THEN TRUE
    ELSE IF s = <<>> THEN FALSE
    ELSE IF Head(s) = Head(sub) THEN includes_Scattered(Tail(s), Tail(sub))
    ELSE includes_Scattered(Tail(s), sub)

includes(s, sub) ==
    \E i \in 1..(Len(s) - Len(sub) + 1) : SubSeq(s, i, i + Len(sub) - 1) = sub

(***************************************************************************)
(* Images (data URLs) and errors                                           *)
(***************************************************************************)
NoImage == [mime |-> "", data |-> <<>>]          \* the empty string ''

TransparencyMessage == "Transparent images are not supported due to rendering bugs. Please upload an image with a solid background."
ApiKeyMessage == "API Key is missing in environment variables."
ConfirmationMessage == "PLATE_DETECTED_CONFIRMATION"
NoImageMessage == "No image was returned by the model."
GenericMessage == "Failed to generate valid image after multiple attempts"

NullError == [kind |-> "null", message |-> ""]   \* let lastError = null
ErrorOf(msg) == [kind |-> "Error", message |-> msg]
NonError == [kind |-> "other", message |-> ""]   \* a thrown value without .message

\* mutant: the captured message is dropped
ExhaustedMessage_Generic(err) == GenericMessage

\* lastError?.message || "Failed to generate ..."
ExhaustedMessage(err) ==
    IF err.kind = "Error" /\ err.message # "" THEN err.message ELSE GenericMessage

(***************************************************************************)
(* preprocessImage.  env describes the execution environment:              *)
(*   hasDOM   window and document are defined                              *)
(*   loads    the image decodes (onload) instead of failing (onerror)      *)
(*   ctx      canvas.getContext('2d') is non-null                          *)
(*   draws    createElement/drawImage do not throw                         *)
(*   readable getImageData does not throw (no CORS taint)                  *)
(*   data     the RGBA byte buffer of the decoded image                    *)
(*   encodes  canvas.toDataURL does not throw                              *)
(***************************************************************************)
PixelBytes(alphas) ==
    [i \in 1..(4 * Len(alphas)) |-> IF i % 4 = 0 THEN alphas[i \div 4] ELSE 0]

\* mutant: the scan visits the alpha byte of every pixel
SampledIndices_EveryPixel(data) ==
    {i \in 0..(Len(data) - 1) : i >= 3 /\ (i - 3) % 4 = 0}

\* for (let i = 3; i < data.length; i += 16): the 0-based indices visited
SampledIndices(data) ==
    {i \in 0..(Len(data) - 1) : i >= 3 /\ (i - 3) % ALPHA_STRIDE = 0}

HasTransparency(data) ==
    \E i \in SampledIndices(data) : data[i + 1] < ALPHA_THRESHOLD

\* mutant: the canvas is encoded in the format of the input
toDataURL_SameFormat(base64Str) == [mime |-> base64Str.mime, data |-> <<"jpeg">> \o base64Str.data]

toDataURL(base64Str) == [mime |-> "image/jpeg", data |-> <<"jpeg">> \o base64Str.data]

Resolve(img) == [kind |-> "resolve", image |-> img, message |-> ""]
Reject(msg) == [kind |-> "reject", image |-> NoImage, message |-> msg]

\* mutant: a load failure rejects
preprocessImage_RejectOnLoadError(base64Str, env) ==
    IF ~env.hasDOM THEN Resolve(base64Str)
    ELSE IF ~env.loads THEN Reject("Failed to load image")
    ELSE IF ~env.draws THEN Resolve(base64Str)
    ELSE IF ~env.ctx THEN Resolve(base64Str)
    ELSE IF env.readable /\ HasTransparency(env.data) THEN Reject(TransparencyMessage)
    ELSE IF ~env.encodes THEN Resolve(base64Str)
    ELSE Resolve(toDataURL(base64Str))

preprocessImage(base64Str, env) ==
    IF ~env.hasDOM THEN Resolve(base64Str)
    ELSE IF ~env.loads THEN Resolve(base64Str)
    ELSE IF ~env.draws THEN Resolve(base64Str)
    ELSE IF ~env.ctx THEN Resolve(base64Str)
    ELSE IF env.readable /\ HasTransparency(env.data) THEN Reject(TransparencyMessage)
    ELSE IF ~env.encodes THEN Resolve(base64Str)
    ELSE Resolve(toDataURL(base64Str))

(***************************************************************************)
(* Text answers of the vision model: the call throws, or the response has  *)
(* a text (possibly absent).                                               *)
(***************************************************************************)
Threw == [threw |-> TRUE, hasText |-> FALSE, text |-> <<>>]
NoText == [threw |-> FALSE, hasText |-> FALSE, text |-> <<>>]
Answer(t) == [threw |-> FALSE, hasText |-> TRUE, text |-> t]

YES == <<"Y", "E", "S">>

\* mutant: the answer must be YES and nothing else
checkForExistingPlate_Exact(response) ==
    IF response.threw THEN FALSE
    ELSE LET text == IF response.hasText THEN toUpperCase(trim(response.text)) ELSE <<>>
         IN  text = YES

\* mutant: a failed model call counts as a detected plate
checkForExistingPlate_FailureIsYes(response) ==
    IF response.threw THEN TRUE
    ELSE LET text == IF response.hasText THEN toUpperCase(trim(response.text)) ELSE <<>>
         IN  includes(text, YES)

checkForExistingPlate(response) ==
    IF response.threw THEN FALSE
    ELSE LET text == IF response.hasText THEN toUpperCase(trim(response.text)) ELSE <<>>
         IN  includes(text, YES)

\* ocrText.length > expected.length * 0.8, in tenths
\* mutant: the length test is dropped
LongEnough_Always(ocrText, expected) == TRUE

LongEnough(ocrText, expected) == 10 * Len(ocrText) > 8 * Len(expected)

\* mutant: a failed model call counts as a match
verifyPlateContent_FailureIsMatch(response, expectedNumber) ==
    IF response.threw THEN TRUE
    ELSE LET ocrText == IF response.hasText /\ response.text # <<>>
                        THEN cleanText(response.text) ELSE <<>>
             expected == cleanText(expectedNumber)
         IN  includes(ocrText, expected)
             \/ (includes(expected, ocrText) /\ LongEnough(ocrText, expected))

verifyPlateContent(response, expectedNumber) ==
    IF response.threw THEN FALSE
    ELSE LET ocrText == IF response.hasText /\ response.text # <<>>
                        THEN cleanText(response.text) ELSE <<>>
             expected == cleanText(expectedNumber)
         IN  includes(ocrText, expected)
             \/ (includes(expected, ocrText) /\ LongEnough(ocrText, expected))

(***************************************************************************)
(* Answers of the image model: the call throws some value, or the response *)
(* carries content parts (possibly none), each with or without inline data.*)
(***************************************************************************)
GenThrew(err) == [threw |-> TRUE, err |-> err, hasParts |-> FALSE, parts |-> <<>>]
GenParts(ps) == [threw |-> FALSE, err |-> NullError, hasParts |-> TRUE, parts |-> ps]
GenNoParts == [threw |-> FALSE, err |-> NullError, hasParts |-> FALSE, parts |-> <<>>]

TextPart == [inline |-> FALSE, data |-> <<>>]
InlinePart(d) == [inline |-> TRUE, data |-> d]       \* d = <<>> is an empty payload

\* for (const part of parts) if (part.inlineData && part.inlineData.data) {...; break}
RECURSIVE firstInlineImage(_)
firstInlineImage(parts) ==
    IF parts = <<>> THEN NoImage
    ELSE IF Head(parts).inline /\ Head(parts).data # <<>>
         THEN [mime |-> "image/png", data |-> Head(parts).data]
         ELSE firstInlineImage(Tail(parts))

extractImage(response) ==
    IF response.hasParts THEN firstInlineImage(response.parts) ELSE NoImage

(***************************************************************************)
(* Inputs of the model                                                     *)
(***************************************************************************)
Images == {[mime |-> "image/png", data |-> <<"src">>]}
PlateNumbers == {<<"A", "B", "-", "1", "2", "3">>}
Countries == {"Germany"}
Modes == {"add", "replace"}

\* decoded buffers: empty, opaque, transparent at a sampled byte (index 3 and 19),
\* transparent only at bytes the scan skips
PixelBuffers ==
    {PixelBytes(<<>>),
     PixelBytes(<<ALPHA_THRESHOLD>>),
     PixelBytes(<<ALPHA_THRESHOLD - 1>>),
     PixelBytes(<<255, 0, 249, 0>>),
     PixelBytes(<<ALPHA_THRESHOLD, 255, 255, 255, ALPHA_THRESHOLD - 1>>)}
Envs == [hasDOM : BOOLEAN, loads : BOOLEAN, ctx : BOOLEAN, draws : BOOLEAN,
         readable : BOOLEAN, encodes : BOOLEAN, data : PixelBuffers]

DetectResponses ==
    {Threw, NoText,
     Answer(<<"Y", "E", "S">>), Answer(<<" ", "y", "e", "s", ".">>),
     Answer(<<"N", "O">>), Answer(<<>>)}

VerifyResponses ==
    {Threw, NoText, Answer(<<>>), Answer(<<"-">>),
     Answer(<<"a", "b", "1", "2", "3">>),          \* exact after cleaning
     Answer(<<"A", "B", " ", "1", "2", "3", "4">>),\* contains the expected text
     Answer(<<"B", "1", "2", "3">>),               \* 4 of 5: not long enough
     Answer(<<"A", "B", "1", "3">>)}               \* not contained

Payloads == {<<"gen", ToString(d)>> : d \in 1..NumPayloads}
\* what the generation call may throw: an Error with a message, a value without one
ThrownValues == {ErrorOf("Service unavailable"), NonError}
GenResponses ==
    {GenThrew(e) : e \in ThrownValues}
    \cup {GenNoParts, GenParts(<<>>), GenParts(<<TextPart>>), GenParts(<<InlinePart(<<>>)>>)}
    \cup {GenParts(<<InlinePart(d)>>) : d \in Payloads}
    \cup {GenParts(<<TextPart, InlinePart(d), InlinePart(e)>>) : d \in Payloads, e \in Payloads}

(***************************************************************************)
(* History records                                                         *)
(***************************************************************************)
NoPrompt == [action |-> "", country |-> "", number |-> <<>>]

Progress(msg, k, n) ==
    [ev |-> "progress", what |-> msg, k |-> k, n |-> n, img |-> NoImage,
     prompt |-> NoPrompt, ok |-> FALSE, threw |-> FALSE]
Call(what, k, img, prompt) ==
    [ev |-> "call", what |-> what, k |-> k, n |-> 0, img |-> img,
     prompt |-> prompt, ok |-> FALSE, threw |-> FALSE]
\* ok: the value the awaited call produced (resolved / true / an image); threw: its model call failed
Settled(what, k, ok, threw) ==
    [ev |-> "settle", what |-> what, k |-> k, n |-> 0, img |-> NoImage,
     prompt |-> NoPrompt, ok |-> ok, threw |-> threw]

\* if (onProgress) onProgress(status)
Emit(tr, cb, event) == IF cb THEN Append(tr, event) ELSE tr

\* mutant: the first attempt is announced as a refinement
AttemptStatus_FromOne(k) ==
    IF k >= 1 THEN Progress("Refining details (Attempt k/n)...", k, MAX_RETRIES)
    ELSE Progress("Generating plate...", 0, 0)

\* attempt > 1 ? `Refining details (Attempt ${attempt}/${MAX_RETRIES})...` : `Generating plate...`
AttemptStatus(k) ==
    IF k > 1 THEN Progress("Refining details (Attempt k/n)...", k, MAX_RETRIES)
    ELSE Progress("Generating plate...", 0, 0)

\* imageBase64.match(/data:([^;]+);/)?.[1] || fallback, with the payload after the comma
InlineData(img, fallback) ==
    [mime |-> IF img.mime = "" THEN fallback ELSE img.mime, data |-> img.data]

\* the prompt built from mode, plateCountry and plateNumber
Prompt(m, country, number) == [action |-> m, country |-> country, number |-> number]

(***************************************************************************)
(* generatePlate                                                           *)
(***************************************************************************)
\* no helper is being applied on its own
NoCall == [fn |-> "none"]
NoRet == [settled |-> FALSE]

\* the App as mounted: useState's initial values, no dialog, no call made
NoSelection == ""
NoMessage == ""
NoRendering == [source |-> "", number |-> <<>>, country |-> "", mode |-> ""]
NoEvent == [handler |-> "", skipDetection |-> FALSE, outcome |-> ""]
InitialState ==
    [originalImage |-> NoSelection, generatedImage |-> NoRendering, plateNumber |-> <<>>,
     plateCountry |-> "", mode |-> "add", isGenerating |-> FALSE, error |-> NoMessage,
     statusMessage |-> ""]
AppIdle ==
    /\ state = InitialState
    /\ showConfirmation = FALSE
    /\ inflight = EmptyBag
    /\ lastEvent = NoEvent

\* module load and the moment before generatePlate is entered
Idle ==
    /\ apiKey \in BOOLEAN
    /\ pc = "idle"
    /\ imageBase64 = NoImage
    /\ plateNumber = <<>>
    /\ plateCountry = ""
    /\ mode = "add"
    /\ onProgress = FALSE
    /\ skipDetection = FALSE
    /\ processedImage = NoImage
    /\ attempt = 0
    /\ generatedImageUrl = NoImage
    /\ lastGeneratedImage = NoImage
    /\ lastError = NullError
    /\ result = NoImage
    /\ thrown = [site |-> "", message |-> ""]
    /\ trace = <<>>
    /\ attempts = <<>>

Init ==
    /\ Idle
    /\ call = NoCall
    /\ ret = NoRet
    /\ AppIdle

args == <<imageBase64, plateNumber, plateCountry, mode, onProgress, skipDetection>>

\* throw new Error(msg) that leaves generatePlate
Fail(site, msg) ==
    /\ pc' = "failed"
    /\ thrown' = [site |-> site, message |-> msg]
    /\ result' = result

\* return img
Return(img) ==
    /\ pc' = "done"
    /\ result' = img
    /\ thrown' = thrown

\* mutant: the key check is missing
ApiKeyMissing_Never(key) == FALSE

\* if (!apiKey)
ApiKeyMissing(key) == ~key

\* mutant: skipDetection is ignored
NeedsDetection_IgnoreSkip(m, skip) == m = "add"

\* mutant: detection is nested under the test for a progress callback
NeedsDetection_OnlyWithCallback(m, skip) == m = "add" /\ ~skip /\ onProgress

\* if (mode === 'add' && !skipDetection)
NeedsDetection(m, skip) == m = "add" /\ ~skip

\* mutant: the first image is kept as the fallback
Remember_First(lgi, url) == IF lgi = NoImage THEN url ELSE lgi

\* lastGeneratedImage = generatedImageUrl
Remember(lgi, url) == url

\* mutant: the generation call is not awaited, the next attempt's call is issued with it
BeginAttempt_Concurrent(k, tr, image) ==
    /\ attempt' = k
    /\ pc' = "generating"
    /\ trace' = Append(Append(Emit(tr, onProgress, AttemptStatus(k)),
                              Call("generate", k, InlineData(image, "image/jpeg"),
                                   Prompt(mode, plateCountry, plateNumber))),
                       Call("generate", k + 1, InlineData(image, "image/jpeg"),
                            Prompt(mode, plateCountry, plateNumber)))
    /\ UNCHANGED <<result, thrown>>

\* top of one loop iteration: progress event, prompt, generation call
BeginAttempt(k, tr, image) ==
    /\ attempt' = k
    /\ pc' = "generating"
    /\ trace' = Append(Emit(tr, onProgress, AttemptStatus(k)),
                       Call("generate", k, InlineData(image, "image/jpeg"),
                            Prompt(mode, plateCountry, plateNumber)))
    /\ UNCHANGED <<result, thrown>>

\* mutant: the code after the loop neither returns nor throws
AfterLoop_Hangs(lgi, le) ==
    /\ pc' = "exhausted"
    /\ UNCHANGED <<result, thrown>>

\* mutant: a captured error wins over the remembered image
AfterLoop_ErrorWins(lgi, le) ==
    IF le # NullError THEN Fail("exhausted", ExhaustedMessage(le)) ELSE Return(lgi)

\* code after the loop
AfterLoop(lgi, le) ==
    IF lgi # NoImage THEN Return(lgi) ELSE Fail("exhausted", ExhaustedMessage(le))

\* mutant: a later attempt edits the image of the attempt before it
EndAttempt_ChainImages(k, tr, lgi, le) ==
    IF k + 1 <= MAX_RETRIES
    THEN BeginAttempt(k + 1, tr, IF lgi # NoImage THEN lgi ELSE processedImage)
    ELSE /\ attempt' = k + 1
         /\ trace' = tr
         /\ AfterLoop(lgi, le)

\* end of iteration k without a return: attempt++, loop test
EndAttempt(k, tr, lgi, le) ==
    IF k + 1 <= MAX_RETRIES
    THEN BeginAttempt(k + 1, tr, processedImage)
    ELSE /\ attempt' = k + 1
         /\ trace' = tr
         /\ AfterLoop(lgi, le)

\* mutant: a failed attempt forgets the image remembered so far
CatchAttemptError_ForgetImage(err, tr) ==
    /\ lastError' = err
    /\ attempts' = Append(attempts, [image |-> NoImage, verifyCalled |-> FALSE,
                                     isPerfect |-> FALSE, error |-> err])
    /\ lastGeneratedImage' = NoImage
    /\ EndAttempt(attempt, tr, NoImage, err)
    /\ UNCHANGED generatedImageUrl

\* mutant: the caught error is not stored
CatchAttemptError_DropError(err, tr) ==
    /\ lastError' = lastError
    /\ attempts' = Append(attempts, [image |-> NoImage, verifyCalled |-> FALSE,
                                     isPerfect |-> FALSE, error |-> err])
    /\ EndAttempt(attempt, tr, lastGeneratedImage, lastError)
    /\ UNCHANGED <<generatedImageUrl, lastGeneratedImage>>

\* mutant: the error of one attempt leaves generatePlate
CatchAttemptError_Rethrow(err, tr) ==
    /\ Fail("attempt", err.message)
    /\ trace' = tr
    /\ UNCHANGED <<attempt, generatedImageUrl, lastGeneratedImage, lastError, attempts>>

\* catch (error) { lastError = error } of the loop body
CatchAttemptError(err, tr) ==
    /\ lastError' = err
    /\ attempts' = Append(attempts, [image |-> NoImage, verifyCalled |-> FALSE,
                                     isPerfect |-> FALSE, error |-> err])
    /\ EndAttempt(attempt, tr, lastGeneratedImage, err)
    /\ UNCHANGED <<generatedImageUrl, lastGeneratedImage>>

\* mutant: a rejection is swallowed and the original image is used
AfterPreprocess_Swallow(r, tr) ==
    /\ processedImage' = imageBase64
    /\ BeginAttempt(1, tr, imageBase64)

\* after await preprocessImage: a rejection leaves generatePlate, else detection or the loop
AfterPreprocess(r, tr) ==
    IF r.kind = "reject"
    THEN /\ Fail("transparency", r.message)
         /\ trace' = tr
         /\ UNCHANGED <<processedImage, attempt>>
    ELSE /\ processedImage' = r.image
         /\ IF NeedsDetection(mode, skipDetection)
            THEN /\ pc' = "detecting"
                 /\ trace' = Append(Emit(tr, onProgress,
                                         Progress("Scanning for existing plates...", 0, 0)),
                                    Call("detect", 0, InlineData(r.image, "image/jpeg"), NoPrompt))
                 /\ UNCHANGED <<attempt, result, thrown>>
            ELSE BeginAttempt(1, tr, r.image)

\* mutant: a detected plate does not stop the invocation
AfterDetect_Proceed(hasPlate, tr) == BeginAttempt(1, tr, processedImage)

\* if (hasPlate) throw, else on to the loop
AfterDetect(hasPlate, tr) ==
    IF hasPlate
    THEN /\ Fail("detected", ConfirmationMessage)
         /\ trace' = tr
         /\ UNCHANGED attempt
    ELSE BeginAttempt(1, tr, processedImage)

\* the loop body from the generation response to the await of verifyPlateContent
AfterGenerate(response, tr) ==
    IF response.threw
    THEN CatchAttemptError(response.err, tr)
    ELSE LET url == extractImage(response)
         IN  IF url = NoImage
             THEN CatchAttemptError(ErrorOf(NoImageMessage), tr)
             ELSE /\ generatedImageUrl' = url
                  /\ lastGeneratedImage' = Remember(lastGeneratedImage, url)
                  /\ pc' = "verifying"
                  /\ trace' = Append(Emit(tr, onProgress, Progress("Verifying plate text...", 0, 0)),
                                     Call("verify", attempt, InlineData(url, "image/png"), NoPrompt))
                  /\ UNCHANGED <<attempt, lastError, result, thrown, attempts>>

\* mutant: the image is returned whatever the verifier said
AfterVerify_ReturnUnverified(isPerfect, tr) ==
    /\ attempts' = Append(attempts, [image |-> generatedImageUrl, verifyCalled |-> TRUE,
                                     isPerfect |-> isPerfect, error |-> NullError])
    /\ Return(generatedImageUrl)
    /\ trace' = tr
    /\ UNCHANGED <<attempt, generatedImageUrl, lastGeneratedImage, lastError>>

\* mutant: a verified image does not end the loop
AfterVerify_NoReturn(isPerfect, tr) ==
    /\ attempts' = Append(attempts, [image |-> generatedImageUrl, verifyCalled |-> TRUE,
                                     isPerfect |-> isPerfect, error |-> NullError])
    /\ EndAttempt(attempt, tr, lastGeneratedImage, lastError)
    /\ UNCHANGED <<generatedImageUrl, lastGeneratedImage, lastError>>

\* if (isPerfect) return generatedImageUrl, else the next iteration
AfterVerify(isPerfect, tr) ==
    /\ attempts' = Append(attempts, [image |-> generatedImageUrl, verifyCalled |-> TRUE,
                                     isPerfect |-> isPerfect, error |-> NullError])
    /\ IF isPerfect
       THEN /\ Return(generatedImageUrl)
            /\ trace' = tr
            /\ UNCHANGED attempt
       ELSE EndAttempt(attempt, tr, lastGeneratedImage, lastError)
    /\ UNCHANGED <<generatedImageUrl, lastGeneratedImage, lastError>>

\* entry up to the await of preprocessImage
Invoke(img, number, country, m, cb, skip) ==
    /\ pc = "idle"
    /\ imageBase64' = img
    /\ plateNumber' = number
    /\ plateCountry' = country
    /\ mode' = m
    /\ onProgress' = cb
    /\ skipDetection' = skip
    /\ IF ApiKeyMissing(apiKey)
       THEN /\ Fail("config", ApiKeyMessage)
            /\ trace' = trace
       ELSE /\ pc' = "normalizing"
            /\ trace' = Append(Emit(trace, cb, Progress("Checking image...", 0, 0)),
                               Call("preprocess", 0, img, NoPrompt))
            /\ UNCHANGED <<result, thrown>>
    /\ UNCHANGED <<apiKey, processedImage, attempt, generatedImageUrl,
                   lastGeneratedImage, lastError, attempts, call, ret, app>>

\* preprocessImage settles
Normalized(env) ==
    /\ pc = "normalizing"
    /\ LET r == preprocessImage(imageBase64, env)
       IN  AfterPreprocess(r, Append(trace, Settled("preprocess", 0, r.kind = "resolve", FALSE)))
    /\ UNCHANGED <<apiKey, args, generatedImageUrl, lastGeneratedImage, lastError, attempts,
                   call, ret, app>>

\* checkForExistingPlate settles
Detected(response) ==
    /\ pc = "detecting"
    /\ LET hasPlate == checkForExistingPlate(response)
       IN  AfterDetect(hasPlate, Append(trace, Settled("detect", 0, hasPlate, response.threw)))
    /\ UNCHANGED <<apiKey, args, processedImage, generatedImageUrl, lastGeneratedImage,
                   lastError, attempts, call, ret, app>>

\* the generation call of the current attempt settles
Generated(response) ==
    /\ pc = "generating"
    /\ AfterGenerate(response,
                     Append(trace, Settled("generate", attempt,
                                           ~response.threw /\ extractImage(response) # NoImage,
                                           response.threw)))
    /\ UNCHANGED <<apiKey, args, processedImage, call, ret, app>>

\* verifyPlateContent of the current attempt settles
Verified(response) ==
    /\ pc = "verifying"
    /\ LET isPerfect == verifyPlateContent(response, plateNumber)
       IN  AfterVerify(isPerfect, Append(trace, Settled("verify", attempt, isPerfect, response.threw)))
    /\ UNCHANGED <<apiKey, args, processedImage, call, ret, app>>

Next ==
    \/ \E img \in Images, number \in PlateNumbers, country \in Countries,
          m \in Modes, cb \in BOOLEAN, skip \in BOOLEAN :
            Invoke(img, number, country, m, cb, skip)
    \/ \E env \in Envs : Normalized(env)
    \/ \E response \in DetectResponses : Detected(response)
    \/ \E response \in GenResponses : Generated(response)
    \/ \E response \in VerifyResponses : Verified(response)

Spec == Init /\ [][Next]_vars

(***************************************************************************)
(* Reading the history                                                     *)
(***************************************************************************)
CallsOf(what) == {i \in DOMAIN trace : trace[i].ev = "call" /\ trace[i].what = what}
SettlesOf(what) == {i \in DOMAIN trace : trace[i].ev = "settle" /\ trace[i].what = what}
ProgressOf(msg) == {i \in DOMAIN trace : trace[i].ev = "progress" /\ trace[i].what = msg}
Terminal == pc \in {"done", "failed"}
Producing == {i \in DOMAIN attempts : attempts[i].image # NoImage}
Perfect == {i \in DOMAIN attempts : attempts[i].isPerfect}
LoopExhausted == Terminal /\ Len(attempts) = 4 /\ Perfect = {}
Max(S) == CHOOSE x \in S : \A y \in S : y <= x

(***************************************************************************)
(* C1: one invocation issues at most 4 calls to the image-generation       *)
(* model, whatever the model answers.                                      *)
(***************************************************************************)
C1_AtMostFourGenerationCalls == Cardinality(CallsOf("generate")) <= 4

C1_Witness == pc = "failed" /\ Cardinality(CallsOf("generate")) = 4

(***************************************************************************)
(* C2: the invocation returns the image of the first attempt whose         *)
(* verification returned true, and nothing (no generation call, no         *)
(* verification call, no progress event) follows that verification.        *)
(***************************************************************************)
C2_ShortCircuitOnSuccess ==
    \A i \in SettlesOf("verify") :
        trace[i].ok =>
            /\ pc = "done"
            /\ i = Len(trace)
            /\ Len(attempts) = trace[i].k
            /\ Perfect = {trace[i].k}
            /\ result = attempts[trace[i].k].image
            /\ result # NoImage

C2_Witness ==
    /\ pc = "done"
    /\ Perfect = {2}
    /\ attempts[1].image # NoImage
    /\ attempts[1].image # attempts[2].image
    /\ onProgress

(***************************************************************************)
(* C3 as stated: when no attempt of the 4 verified and at least one        *)
(* produced an image, the returned image is attempt 4's.                   *)
(***************************************************************************)
C3_Original ==
    (LoopExhausted /\ Producing # {}) => (pc = "done" /\ result = attempts[4].image)

(***************************************************************************)
(* C3 amended: when no attempt of the 4 verified and at least one produced *)
(* an image, the returned image is that of the last attempt that produced  *)
(* one; it is attempt 4's whenever attempt 4 produced an image.            *)
(***************************************************************************)
C3_ReturnsLastProducedImage ==
    (LoopExhausted /\ Producing # {}) =>
        /\ pc = "done"
        /\ result = attempts[Max(Producing)].image
        /\ (4 \in Producing => result = attempts[4].image)

C3_Witness ==
    /\ LoopExhausted
    /\ Producing = {1, 2}
    /\ attempts[1].image # attempts[2].image
    /\ attempts[3].error = ErrorOf(NoImageMessage)
    /\ attempts[4].error = ErrorOf("Service unavailable")
    /\ result = attempts[2].image

(***************************************************************************)
(* C4: when none of the 4 attempts produced an image the invocation fails  *)
(* (no image, no empty string is returned) with the message of attempt 4's *)
(* captured error, and with the generic message only when that error has   *)
(* no message.                                                             *)
(***************************************************************************)
C4_ExhaustedWithoutImageFails ==
    (LoopExhausted /\ Producing = {}) =>
        /\ pc = "failed"
        /\ result = NoImage
        /\ thrown.site = "exhausted"
        /\ LET e == attempts[4].error
           IN  thrown.message = IF e.kind = "Error" /\ e.message # ""
                                THEN e.message ELSE GenericMessage

C4_Witness ==
    /\ LoopExhausted
    /\ Producing = {}
    /\ attempts[3].error = ErrorOf("Service unavailable")
    /\ attempts[4].error = ErrorOf(NoImageMessage)
    /\ thrown.message = NoImageMessage

(***************************************************************************)
(* C5: in add mode without skipDetection, when the detector reports a      *)
(* plate the invocation ends with PLATE_DETECTED_CONFIRMATION and has      *)
(* issued no generation call and no verification call.                     *)
(***************************************************************************)
C5_DetectionPrecedesGeneration ==
    \A i \in SettlesOf("detect") :
        trace[i].ok =>
            /\ mode = "add" /\ ~skipDetection
            /\ pc = "failed"
            /\ thrown = [site |-> "detected", message |-> "PLATE_DETECTED_CONFIRMATION"]
            /\ CallsOf("generate") = {}
            /\ CallsOf("verify") = {}
            /\ i = Len(trace)

C5_Witness ==
    /\ \E i \in SettlesOf("detect") : trace[i].ok
    /\ thrown.site = "detected"

(***************************************************************************)
(* C6: the detector is called at most once, and only in add mode with      *)
(* skipDetection false; otherwise it is never called, the invocation never *)
(* ends with PLATE_DETECTED_CONFIRMATION, and the first generation attempt *)
(* follows normalization directly.                                         *)
(***************************************************************************)
C6_DetectorOnlyWhenNeeded ==
    /\ Cardinality(CallsOf("detect")) <= 1
    /\ CallsOf("detect") # {} => (mode = "add" /\ ~skipDetection)
    /\ thrown.site = "detected" => (mode = "add" /\ ~skipDetection)
    /\ (mode = "replace" \/ skipDetection) =>
          \A i \in SettlesOf("preprocess") :
              trace[i].ok =>
                  /\ Len(trace) > i
                  /\ LET j == IF onProgress THEN i + 2 ELSE i + 1
                     IN  /\ Len(trace) >= j
                         /\ trace[j].ev = "call" /\ trace[j].what = "generate" /\ trace[j].k = 1
                         /\ \A m \in (i + 1)..(j - 1) : trace[m].what = "Generating plate..."

C6_Witness ==
    /\ mode = "add" /\ skipDetection
    /\ pc = "done"
    /\ CallsOf("detect") = {}
    /\ Cardinality(CallsOf("generate")) = 2

(***************************************************************************)
(* C7: with a progress callback, the events arrive in this order:          *)
(* "Checking image..." first; "Scanning for existing plates..." exactly    *)
(* when the detector is called; then per attempt k, in increasing order,   *)
(* "Generating plate..." (k = 1) or "Refining details (Attempt k/4)..."    *)
(* (k > 1) right before the generation call of attempt k, and "Verifying   *)
(* plate text..." right before its verification call.                      *)
(***************************************************************************)
IsProgress(i, msg, k, n) ==
    /\ i \in DOMAIN trace
    /\ trace[i].ev = "progress" /\ trace[i].what = msg /\ trace[i].k = k /\ trace[i].n = n
IsCall(i, what, k) ==
    /\ i \in DOMAIN trace
    /\ trace[i].ev = "call" /\ trace[i].what = what /\ trace[i].k = k
AttemptProgress ==
    ProgressOf("Generating plate...") \cup ProgressOf("Refining details (Attempt k/n)...")

C7_ProgressOrder ==
    (onProgress /\ trace # <<>>) =>
        /\ ProgressOf("Checking image...") = {1}
        /\ \A i \in CallsOf("detect") : IsProgress(i - 1, "Scanning for existing plates...", 0, 0)
        /\ \A i \in ProgressOf("Scanning for existing plates...") : IsCall(i + 1, "detect", 0)
        /\ \A i \in CallsOf("generate") :
              IF trace[i].k = 1
              THEN IsProgress(i - 1, "Generating plate...", 0, 0)
              ELSE IsProgress(i - 1, "Refining details (Attempt k/n)...", trace[i].k, 4)
        /\ \A i \in ProgressOf("Generating plate...") : IsCall(i + 1, "generate", 1)
        /\ \A i \in ProgressOf("Refining details (Attempt k/n)...") :
              trace[i].k > 1 /\ IsCall(i + 1, "generate", trace[i].k)
        /\ \A i \in CallsOf("verify") : IsProgress(i - 1, "Verifying plate text...", 0, 0)
        /\ \A i \in ProgressOf("Verifying plate text...") :
              \E k \in 1..4 : IsCall(i + 1, "verify", k)
        /\ {trace[i].k : i \in CallsOf("generate")} = 1..Cardinality(CallsOf("generate"))
        /\ \A i \in CallsOf("generate"), j \in CallsOf("generate") :
              i < j => trace[i].k < trace[j].k
        /\ \A i \in CallsOf("verify") :
              /\ \E g \in CallsOf("generate") : g < i /\ trace[g].k = trace[i].k
              /\ \A g \in CallsOf("generate") : g > i => trace[g].k > trace[i].k
        /\ \A i \in ProgressOf("Scanning for existing plates...") :
              \A j \in AttemptProgress \cup ProgressOf("Verifying plate text...") : i < j
        /\ \A i \in DOMAIN trace :
              trace[i].ev = "progress" =>
                  i \in ProgressOf("Checking image...")
                        \cup ProgressOf("Scanning for existing plates...")
                        \cup AttemptProgress \cup ProgressOf("Verifying plate text...")

C7_Witness ==
    /\ onProgress
    /\ pc = "done"
    /\ CallsOf("detect") # {}
    /\ Cardinality(CallsOf("generate")) = 4
    /\ Cardinality(CallsOf("verify")) = 2
    /\ Cardinality(ProgressOf("Refining details (Attempt k/n)...")) = 3

(***************************************************************************)
(* C8: when the normalizer raises the transparency error, the invocation   *)
(* fails with that error at once: no detector call, no generation call, no *)
(* verification call, no attempt.                                          *)
(***************************************************************************)
C8_TransparencyIsTerminal ==
    \A i \in SettlesOf("preprocess") :
        ~trace[i].ok =>
            /\ pc = "failed"
            /\ thrown = [site |-> "transparency", message |-> TransparencyMessage]
            /\ i = Len(trace)
            /\ CallsOf("detect") = {} /\ CallsOf("generate") = {} /\ CallsOf("verify") = {}
            /\ attempts = <<>> /\ attempt = 0

C8_Witness ==
    /\ \E i \in SettlesOf("preprocess") : ~trace[i].ok
    /\ thrown.site = "transparency"
    /\ mode = "add" /\ ~skipDetection

(***************************************************************************)
(* C9: without an API key the invocation fails with the configuration      *)
(* error before anything else: no progress event, no normalization, no     *)
(* detector, generation or verification call, no attempt.                  *)
(***************************************************************************)
C9_MissingKeyFailsFirst ==
    (~apiKey /\ pc # "idle") =>
        /\ pc = "failed"
        /\ thrown = [site |-> "config", message |-> ApiKeyMessage]
        /\ trace = <<>>
        /\ attempts = <<>> /\ attempt = 0
        /\ processedImage = NoImage

C9_Witness == ~apiKey /\ pc = "failed" /\ onProgress /\ mode = "add" /\ ~skipDetection

(***************************************************************************)
(* C10: an invocation ends with a returned image or with one of exactly    *)
(* four failures (configuration, transparency, PLATE_DETECTED_CONFIRMATION,*)
(* exhausted retries); a failed detector call, a failed verifier call or   *)
(* one attempt's failed generation call does not end it by itself.         *)
(***************************************************************************)
C10_OnlyFourFailures ==
    /\ pc = "done" => (result # NoImage /\ thrown.site = "")
    /\ pc = "failed" =>
          /\ result = NoImage
          /\ thrown.site \in {"config", "transparency", "detected", "exhausted"}
          /\ thrown.site = "config" => ~apiKey
          /\ thrown.site = "transparency" =>
                (trace[Len(trace)].what = "preprocess" /\ ~trace[Len(trace)].ok)
          /\ thrown.site = "detected" =>
                (trace[Len(trace)].what = "detect" /\ trace[Len(trace)].ok
                 /\ ~trace[Len(trace)].threw)
          /\ thrown.site = "exhausted" => (LoopExhausted /\ Producing = {})
    /\ \A i \in SettlesOf("detect") :
          trace[i].threw => \E j \in CallsOf("generate") : j > i /\ trace[j].k = 1
    /\ \A i \in SettlesOf("generate") \cup SettlesOf("verify") :
          (~trace[i].ok /\ trace[i].k < 4) =>
              \E j \in CallsOf("generate") : j > i /\ trace[j].k = trace[i].k + 1

C10_Witness ==
    /\ pc = "done"
    /\ \E i \in SettlesOf("detect") : trace[i].threw
    /\ \E i \in SettlesOf("generate") : trace[i].threw /\ trace[i].k = 1
    /\ \E i \in SettlesOf("verify") : trace[i].threw /\ trace[i].k = 2
    /\ \E i \in SettlesOf("generate") : ~trace[i].ok /\ ~trace[i].threw /\ trace[i].k = 3
    /\ Len(attempts) = 4

(***************************************************************************)
(* C11: an unverified image is returned only after all 4 attempts: a run   *)
(* that returns before the 4th attempt has finished returns an image whose *)
(* verification call returned true.                                        *)
(***************************************************************************)
C11_BestEffortOnlyAfterFourAttempts ==
    pc = "done" =>
        /\ Len(attempts) < 4 =>
              \E i \in SettlesOf("verify") :
                  trace[i].ok /\ trace[i].k = Len(attempts) /\ attempts[trace[i].k].image = result
        /\ Perfect = {} =>
              (Len(attempts) = 4 /\ Cardinality(SettlesOf("generate")) = 4)

C11_Witness ==
    /\ pc = "done"
    /\ Len(attempts) = 3
    /\ Producing = {1, 3}
    /\ Perfect = {3}

(***************************************************************************)
(* C12: a failed model call of the detector yields false, never an error,  *)
(* and the invocation goes on to the first attempt exactly as when no      *)
(* plate is detected.                                                      *)
(***************************************************************************)
C12_DetectorFailureIsNoPlate ==
    \A i \in SettlesOf("detect") :
        trace[i].threw =>
            /\ ~trace[i].ok
            /\ thrown.site # "detected"
            /\ pc \notin {"detecting", "normalizing", "idle"}
            /\ onProgress => IsProgress(i + 1, "Generating plate...", 0, 0)
            /\ LET j == IF onProgress THEN i + 2 ELSE i + 1
               IN  IsCall(j, "generate", 1) /\ trace[j].img.data = processedImage.data

C12_Witness ==
    /\ \E i \in SettlesOf("detect") : trace[i].threw
    /\ pc = "done"
    /\ Perfect = {1}

(***************************************************************************)
(* C16: a failed model call of the verifier yields false, never an error;  *)
(* the attempt counts as a failed verification: its image stays the        *)
(* fallback and the next attempt is made when attempts remain.             *)
(***************************************************************************)
C16_VerifierFailureIsRetry ==
    \A i \in SettlesOf("verify") :
        trace[i].threw =>
            LET k == trace[i].k
            IN  /\ ~trace[i].ok
                /\ k \in DOMAIN attempts
                /\ ~attempts[k].isPerfect
                /\ attempts[k].image # NoImage
                /\ (Len(attempts) = k /\ pc # "verifying") =>
                      lastGeneratedImage = attempts[k].image
                /\ k < 4 => \E j \in CallsOf("generate") : j > i /\ trace[j].k = k + 1
                /\ k = 4 => (pc = "done" /\ result = attempts[4].image)

C16_Witness ==
    /\ pc = "done"
    /\ \E i \in SettlesOf("verify") : trace[i].threw /\ trace[i].k = 1
    /\ \E i \in SettlesOf("verify") : trace[i].threw /\ trace[i].k = 4
    /\ attempts[1].image # attempts[4].image

(***************************************************************************)
(* C20: when the loop ends without a verified image, the image of the      *)
(* highest-numbered attempt that produced one is returned, also when later *)
(* attempts threw or returned no image; their errors are not surfaced.     *)
(***************************************************************************)
C20_FallbackIgnoresLaterErrors ==
    \A k \in Producing :
        (LoopExhausted /\ \A j \in Producing : j <= k) =>
            /\ pc = "done"
            /\ result = attempts[k].image
            /\ thrown = [site |-> "", message |-> ""]

C20_Witness ==
    /\ LoopExhausted
    /\ Producing = {2}
    /\ attempts[3].error = ErrorOf("Service unavailable")
    /\ attempts[4].error = ErrorOf(NoImageMessage)
    /\ lastError = ErrorOf(NoImageMessage)
    /\ pc = "done"

(***************************************************************************)
(* C21: when the generation call of attempt k throws, or its response      *)
(* holds no inline image, the verifier is not called for attempt k, the    *)
(* remembered image stays as it was, the error becomes the last error, and *)
(* attempt k+1 issues its generation call whenever k < 4.                  *)
(***************************************************************************)
C21_FailedGenerationFrame ==
    [][(pc = "generating" /\ pc' # "verifying") =>
         LET k == attempt
             settle == trace'[Len(trace) + 1]
         IN  /\ settle.ev = "settle" /\ settle.what = "generate" /\ settle.k = k /\ ~settle.ok
             /\ \A i \in DOMAIN trace' :
                   ~(trace'[i].ev = "call" /\ trace'[i].what = "verify" /\ trace'[i].k = k)
             /\ lastGeneratedImage' = lastGeneratedImage
             /\ Len(attempts') = k
             /\ lastError' = attempts'[k].error
             /\ lastError' # NullError
             /\ ~settle.threw => lastError' = ErrorOf(NoImageMessage)
             /\ k < 4 => /\ pc' = "generating"
                         /\ attempt' = k + 1
                         /\ trace'[Len(trace')].ev = "call"
                         /\ trace'[Len(trace')].what = "generate"
                         /\ trace'[Len(trace')].k = k + 1
             /\ k = 4 => pc' \in {"done", "failed"}]_vars

C21_Witness ==
    /\ pc = "generating"
    /\ attempt = 3
    /\ attempts[1].image # NoImage
    /\ attempts[2].error = ErrorOf(NoImageMessage)
    /\ lastGeneratedImage = attempts[1].image
    /\ lastError = ErrorOf(NoImageMessage)

(***************************************************************************)
(* C22: at most one external call (decode, detection, generation,          *)
(* verification) is outstanding at any time: calls and settlements         *)
(* alternate, each settlement is that of the call before it, and the       *)
(* generation calls are issued in the order of their attempts.             *)
(***************************************************************************)
IsExternal(e) == e.ev # "progress"
External == SelectSeq(trace, IsExternal)

C22_OneCallOutstanding ==
    LET X == External
    IN  /\ \A i \in DOMAIN X :
              IF i % 2 = 1
              THEN X[i].ev = "call"
              ELSE /\ X[i].ev = "settle"
                   /\ X[i].what = X[i - 1].what
                   /\ X[i].k = X[i - 1].k
        /\ \A i, j \in CallsOf("generate") : i < j => trace[i].k < trace[j].k
        /\ \A i \in CallsOf("verify") :
              \E j \in SettlesOf("generate") : j < i /\ trace[j].k = trace[i].k

C22_Witness ==
    /\ pc = "done"
    /\ CallsOf("detect") # {}
    /\ Cardinality(CallsOf("generate")) = 4
    /\ Cardinality(CallsOf("verify")) = 3
    /\ Len(External) = 18

(***************************************************************************)
(* C23: progress reporting does not affect control flow.  The sequence of  *)
(* external calls and the outcome follow, step by step, from the request   *)
(* (without its callback) and the settlements so far, by a rule that never *)
(* reads whether a callback was supplied; so two invocations that differ   *)
(* only in the callback and see the same responses issue the same calls    *)
(* and end the same way.                                                   *)
(***************************************************************************)
C23_ControlFlowIgnoresProgress ==
    LET X == External
        n == Len(X)
        Follows(i, c) == i < n /\ X[i + 1] = c
        GenCall(k) == Call("generate", k, InlineData(processedImage, "image/jpeg"),
                           Prompt(mode, plateCountry, plateNumber))
        AfterAttempt(i, k) ==
            IF k < 4 THEN Follows(i, GenCall(k + 1))
            ELSE /\ i = n
                 /\ IF Producing # {}
                    THEN pc = "done" /\ result = attempts[Max(Producing)].image
                    ELSE pc = "failed" /\ thrown.site = "exhausted"
    IN  /\ pc = "idle" => n = 0
        /\ (pc # "idle" /\ apiKey) => (n >= 1 /\ X[1] = Call("preprocess", 0, imageBase64, NoPrompt))
        /\ (pc # "idle" /\ ~apiKey) => (n = 0 /\ pc = "failed" /\ thrown.site = "config")
        /\ \A i \in 1..n :
              CASE X[i].ev = "call" ->
                      IF i = n THEN pc \notin {"idle", "done", "failed"}
                      ELSE X[i + 1].ev = "settle"
                [] X[i].ev = "settle" /\ X[i].what = "preprocess" ->
                      IF ~X[i].ok THEN i = n /\ pc = "failed" /\ thrown.site = "transparency"
                      ELSE IF mode = "add" /\ ~skipDetection
                           THEN Follows(i, Call("detect", 0,
                                                InlineData(processedImage, "image/jpeg"), NoPrompt))
                           ELSE Follows(i, GenCall(1))
                [] X[i].ev = "settle" /\ X[i].what = "detect" ->
                      IF X[i].ok THEN i = n /\ pc = "failed" /\ thrown.site = "detected"
                      ELSE Follows(i, GenCall(1))
                [] X[i].ev = "settle" /\ X[i].what = "generate" ->
                      IF X[i].ok
                      THEN /\ i < n
                           /\ X[i + 1].ev = "call"
                           /\ X[i + 1].what = "verify"
                           /\ X[i + 1].k = X[i].k
                      ELSE AfterAttempt(i, X[i].k)
                [] X[i].ev = "settle" /\ X[i].what = "verify" ->
                      IF X[i].ok
                      THEN i = n /\ pc = "done" /\ result = attempts[X[i].k].image
                      ELSE AfterAttempt(i, X[i].k)

C23_Witness ==
    /\ ~onProgress
    /\ trace = External
    /\ pc = "done"
    /\ CallsOf("detect") # {}
    /\ Cardinality(CallsOf("generate")) = 4
    /\ Perfect = {}

(***************************************************************************)
(* C24: every generation call of one invocation submits the normalized     *)
(* source image and the request's own mode, style and plate text; no       *)
(* attempt is given the image an earlier attempt produced.                 *)
(***************************************************************************)
C24_SameSourceEveryAttempt ==
    \A i \in CallsOf("generate") :
        /\ trace[i].img.data = processedImage.data
        /\ trace[i].img.mime = IF processedImage.mime = "" THEN "image/jpeg"
                               ELSE processedImage.mime
        /\ trace[i].prompt.action = mode
        /\ trace[i].prompt.country = plateCountry
        /\ trace[i].prompt.number = plateNumber
        /\ \A k \in Producing : trace[i].img.data # attempts[k].image.data
        /\ \A j \in CallsOf("generate") :
              trace[j].img = trace[i].img /\ trace[j].prompt = trace[i].prompt

C24_Witness ==
    /\ mode = "replace"
    /\ Cardinality(CallsOf("generate")) = 4
    /\ Producing = {1, 2, 3}
    /\ attempts[1].image # attempts[2].image

(***************************************************************************)
(* C25: provided every external call eventually returns or fails, every    *)
(* invocation eventually ends, as DONE with an image or as FAILED with an  *)
(* error and never as both, and on its way passes from normalizing through *)
(* the optional detecting to generating and verifying in alternation.      *)
(* The fairness condition is the proviso: the awaited call settles.         *)
(***************************************************************************)
\* Which payload an attempt returns has no part in whether the invocation ends:
\* the generation responses of the fair specification carry one payload.
LivePayload == <<"gen", "1">>
LiveGenResponses ==
    {GenThrew(e) : e \in ThrownValues}
    \cup {GenNoParts, GenParts(<<>>), GenParts(<<TextPart>>), GenParts(<<InlinePart(<<>>)>>),
          GenParts(<<InlinePart(LivePayload)>>),
          GenParts(<<TextPart, InlinePart(LivePayload), InlinePart(LivePayload)>>)}

\* the outstanding call settles (at most one is outstanding, so one disjunct is enabled)
Settle ==
    \/ \E env \in Envs : Normalized(env)
    \/ \E response \in DetectResponses : Detected(response)
    \/ \E response \in LiveGenResponses : Generated(response)
    \/ \E response \in VerifyResponses : Verified(response)

LiveNext ==
    \/ \E img \in Images, number \in PlateNumbers, country \in Countries,
          m \in Modes, cb \in BOOLEAN, skip \in BOOLEAN :
            Invoke(img, number, country, m, cb, skip)
    \/ Settle

LiveSpec == Init /\ [][LiveNext]_vars /\ WF_vars(Settle)

StateOrder ==
    {<<"idle", "normalizing">>, <<"idle", "failed">>,
     <<"normalizing", "detecting">>, <<"normalizing", "generating">>,
     <<"normalizing", "failed">>,
     <<"detecting", "generating">>, <<"detecting", "failed">>,
     <<"generating", "verifying">>, <<"generating", "generating">>,
     <<"generating", "done">>, <<"generating", "failed">>,
     <<"verifying", "generating">>, <<"verifying", "done">>, <<"verifying", "failed">>}

InStateOrder == <<pc, pc'>> \in StateOrder

C25_EveryInvocationEnds ==
    /\ (pc # "idle") ~> (pc \in {"done", "failed"})
    /\ [][InStateOrder]_vars
    /\ [](pc = "done" => (result # NoImage /\ thrown.site = ""))
    /\ [](pc = "failed" => (result = NoImage /\ thrown.site # ""))

C25_Witness ==
    /\ pc = "failed"
    /\ thrown.site = "exhausted"
    /\ CallsOf("detect") # {}
    /\ Cardinality(CallsOf("generate")) = 4
    /\ Cardinality(CallsOf("verify")) = 0

(***************************************************************************)
(* C28: whenever the retry loop ends with no image remembered, every one   *)
(* of the 4 attempts recorded an error, the last error is attempt 4's, and *)
(* the invocation fails with that error's message, the generic message     *)
(* standing in only for a missing or empty one.                            *)
(***************************************************************************)
C28_ErrorPresentWhenNoImage ==
    (attempt > MAX_RETRIES /\ lastGeneratedImage = NoImage) =>
        /\ Len(attempts) = 4
        /\ \A k \in 1..4 : attempts[k].error # NullError
        /\ lastError # NullError
        /\ lastError = attempts[4].error
        /\ pc = "failed"
        /\ lastError.message # "" => thrown.message = lastError.message
        /\ thrown.message = GenericMessage => lastError.message \in {"", GenericMessage}

C28_Witness ==
    /\ attempt > MAX_RETRIES
    /\ lastGeneratedImage = NoImage
    /\ attempts[1].error = ErrorOf(NoImageMessage)
    /\ attempts[4].error = NonError
    /\ thrown.message = GenericMessage

(***************************************************************************)
(* The helper functions applied on their own.  The service variables stay  *)
(* as they are before generatePlate is entered.                            *)
(***************************************************************************)
service == <<apiKey, pc, imageBase64, plateNumber, plateCountry, mode, onProgress,
             skipDetection, processedImage, attempt, generatedImageUrl,
             lastGeneratedImage, lastError, result, thrown, trace, attempts>>

StringsUpTo(alphabet, n) == UNION {[1..k -> alphabet] : k \in 0..n}

Returned(v) == [settled |-> TRUE, value |-> v]

(***************************************************************************)
(* checkForExistingPlate on every short answer                             *)
(***************************************************************************)
DetectChars == {"y", "Y", "e", "s", "n", " "}
DetectInputs ==
    {Threw, NoText} \cup {Answer(t) : t \in StringsUpTo(DetectChars, MaxDetectLen)}

InitDetect ==
    /\ Idle
    /\ apiKey
    /\ call \in {[fn |-> "checkForExistingPlate", response |-> r] : r \in DetectInputs}
    /\ ret = NoRet
    /\ AppIdle

RunDetect ==
    /\ call.fn = "checkForExistingPlate"
    /\ ~ret.settled
    /\ ret' = Returned(checkForExistingPlate(call.response))
    /\ UNCHANGED <<service, call, app>>

SpecDetect == InitDetect /\ [][RunDetect]_vars

(***************************************************************************)
(* C13: the detector answers true exactly when the model's text, trimmed   *)
(* and uppercased, contains "YES"; an absent, empty or other answer gives  *)
(* false.                                                                  *)
(***************************************************************************)
SpellsYes(text) ==
    \E i \in 1..(Len(text) - 2) :
        /\ text[i] \in {"y", "Y"}
        /\ text[i + 1] \in {"e", "E"}
        /\ text[i + 2] \in {"s", "S"}

C13_TrueExactlyOnYes ==
    ret.settled =>
        (ret.value <=> (~call.response.threw /\ call.response.hasText
                        /\ SpellsYes(call.response.text)))

C13_Witness ==
    /\ ret.settled
    /\ ret.value
    /\ call.response.text = <<" ", "n", "y", "e", "s">>

(***************************************************************************)
(* verifyPlateContent on every short plate text and answer, and on the     *)
(* plate ABC1234 of the documented examples                                *)
(***************************************************************************)
ExpectedChars == {"A", "1"}
AnswerChars == {"a", "1", "-"}
ABC1234 == <<"A", "B", "C", "1", "2", "3", "4">>
SampleAnswers ==
    {<<"A", "B", "1", "2", "3", "4">>,                      \* AB1234
     <<"A", "B", "C", "1", "2", "3">>,                      \* ABC123
     <<"B", "C", "1", "2", "3", "4">>,                      \* BC1234
     <<"a", "b", "c", "-", "1", "2", "3", "4">>,            \* abc-1234
     <<"A", "B", "C", " ", "1", "2", "3", "4", "A", "B">>}  \* ABC 1234AB
VerifyInputs ==
    {[fn |-> "verifyPlateContent", response |-> r, expectedNumber |-> e] :
        r \in {Threw, NoText} \cup {Answer(t) : t \in StringsUpTo(AnswerChars, MaxPlateLen)},
        e \in StringsUpTo(ExpectedChars, MaxPlateLen)}
    \cup {[fn |-> "verifyPlateContent", response |-> Answer(t), expectedNumber |-> e] :
        t \in SampleAnswers, e \in {ABC1234, <<"a", "b", "c", "-", "1", "2", "3", "4">>}}

InitVerify ==
    /\ Idle
    /\ apiKey
    /\ call \in VerifyInputs
    /\ ret = NoRet
    /\ AppIdle

RunVerify ==
    /\ call.fn = "verifyPlateContent"
    /\ ~ret.settled
    /\ ret' = Returned(verifyPlateContent(call.response, call.expectedNumber))
    /\ UNCHANGED <<service, call, app>>

SpecVerify == InitVerify /\ [][RunVerify]_vars

Observed == IF call.response.hasText THEN cleanText(call.response.text) ELSE <<>>
Expected == cleanText(call.expectedNumber)
Within(inner, outer) ==
    \E i \in 0..(Len(outer) - Len(inner)) :
        \A j \in 1..Len(inner) : outer[i + j] = inner[j]

(***************************************************************************)
(* C14: the verifier answers true exactly when the normalized answer       *)
(* contains the normalized plate text, or the plate text contains the      *)
(* answer and the answer is at least 80% as long (exactly 80%, 4 of 5,     *)
(* counts).                                                                *)
(***************************************************************************)
C14_AtLeastEightyPercent ==
    (ret.settled /\ ~call.response.threw) =>
        (ret.value <=>
            \/ Within(Expected, Observed)
            \/ (Within(Observed, Expected) /\ 10 * Len(Observed) >= 8 * Len(Expected)))

(***************************************************************************)
(* C15 as stated: with plate ABC1234 the answer AB1234 verifies.           *)
(***************************************************************************)
C15_Original ==
    (ret.settled /\ call.expectedNumber = ABC1234
     /\ call.response = Answer(<<"A", "B", "1", "2", "3", "4">>)) => ret.value

(***************************************************************************)
(* C15 amended: with plate ABC1234 the answer AB1234 does not verify,      *)
(* because AB1234 is not a run of adjacent characters of ABC1234; the      *)
(* 6-of-7 answers that are such a run, ABC123 and BC1234, verify.          *)
(***************************************************************************)
C15_OnlyAdjacentRunsVerify ==
    (ret.settled /\ call.expectedNumber = ABC1234) =>
        /\ call.response = Answer(<<"A", "B", "1", "2", "3", "4">>) => ~ret.value
        /\ call.response = Answer(<<"A", "B", "C", "1", "2", "3">>) => ret.value
        /\ call.response = Answer(<<"B", "C", "1", "2", "3", "4">>) => ret.value

C15_Witness ==
    /\ ret.settled
    /\ call.expectedNumber = ABC1234
    /\ call.response = Answer(<<"A", "B", "1", "2", "3", "4">>)
    /\ ~ret.value

(***************************************************************************)
(* C26: the verdict does not change when, in the model's answer or in the  *)
(* expected plate text or in both, the letter case is changed or           *)
(* characters that are neither letters nor digits are inserted or removed; *)
(* expected ABC1234 with answer abc-1234 verifies.                         *)
(***************************************************************************)
CaseSwap == [a |-> "A", b |-> "B", c |-> "C", A |-> "a", B |-> "b", C |-> "c"]
SwapCase(s) == [i \in 1..Len(s) |-> IF s[i] \in DOMAIN CaseSwap THEN CaseSwap[s[i]] ELSE s[i]]
Punctuated(s) == [i \in 1..(2 * Len(s)) |-> IF i % 2 = 1 THEN "-" ELSE s[i \div 2]] \o <<" ", ".">>
IsSeparator(c) == c \in {"-", " ", "."}
KeepsCharacter(c) == ~IsSeparator(c)
Bare(s) == SelectSeq(s, KeepsCharacter)
Variants(s) == {s, SwapCase(s), Punctuated(s), Bare(s), SwapCase(Punctuated(s))}

C26_CaseAndPunctuationBlind ==
    (ret.settled /\ call.response.hasText) =>
        /\ \A t \in Variants(call.response.text), e \in Variants(call.expectedNumber) :
              verifyPlateContent(Answer(t), e) = ret.value
        /\ (call.expectedNumber = ABC1234
            /\ call.response.text = <<"a", "b", "c", "-", "1", "2", "3", "4">>) => ret.value

C26_Witness ==
    /\ ret.settled
    /\ ret.value
    /\ call.expectedNumber = ABC1234
    /\ call.response = Answer(<<"a", "b", "c", "-", "1", "2", "3", "4">>)

(***************************************************************************)
(* C29: when the expected plate text holds at least one letter or digit,   *)
(* an answer that is absent, empty or without any letter or digit does not *)
(* verify.                                                                 *)
(***************************************************************************)
Legible(s) == \E i \in DOMAIN s : ~IsSeparator(s[i])

C29_BlankAnswerNeverVerifies ==
    (/\ ret.settled
     /\ Legible(call.expectedNumber)
     /\ ~call.response.threw
     /\ (call.response.hasText => ~Legible(call.response.text))) => ~ret.value

C29_Witness ==
    /\ ret.settled
    /\ ~ret.value
    /\ call.expectedNumber = <<"A", "1">>
    /\ call.response = Answer(<<"-", "-">>)

(***************************************************************************)
(* preprocessImage in every environment, on every small pixel buffer       *)
(***************************************************************************)
AlphaValues == {ALPHA_THRESHOLD - 1, ALPHA_THRESHOLD, 255}
AlphaSeqs == StringsUpTo(AlphaValues, MaxPixels)
PreprocessInputs ==
    [fn : {"preprocessImage"}, base64Str : Images,
     env : [hasDOM : BOOLEAN, loads : BOOLEAN, ctx : BOOLEAN, draws : BOOLEAN,
            readable : BOOLEAN, encodes : BOOLEAN,
            data : {PixelBytes(a) : a \in AlphaSeqs}]]

InitPreprocess ==
    /\ Idle
    /\ apiKey
    /\ call \in PreprocessInputs
    /\ ret = NoRet
    /\ AppIdle

RunPreprocess ==
    /\ call.fn = "preprocessImage"
    /\ ~ret.settled
    /\ ret' = Returned(preprocessImage(call.base64Str, call.env))
    /\ UNCHANGED <<service, call, app>>

SpecPreprocess == InitPreprocess /\ [][RunPreprocess]_vars

\* the canvas was drawn: window/document exist, the image loaded, a 2D context was obtained
Surface == call.env.hasDOM /\ call.env.loads /\ call.env.ctx /\ call.env.draws
\* pixel p (from 0) has its alpha at byte 4p + 3; every 4th pixel is looked at
SampledPixelBelow(limit) ==
    \E p \in 0..((Len(call.env.data) \div 4) - 1) :
        p % 4 = 0 /\ call.env.data[4 * p + 4] < limit
\* the image carries pixels that are not fully opaque
AlphaChannel(img) ==
    /\ img.mime # "image/jpeg"
    /\ \E p \in 0..((Len(call.env.data) \div 4) - 1) : call.env.data[4 * p + 4] < 255

(***************************************************************************)
(* C17: preprocessImage always settles and rejects only with the           *)
(* transparency error; without a rendering surface, on a load failure,     *)
(* without a 2D context, or when drawing or encoding throws, it resolves   *)
(* with the input unchanged.                                               *)
(***************************************************************************)
C17_OnlyTransparencyRejects ==
    ret.settled =>
        /\ ret.value.kind \in {"resolve", "reject"}
        /\ ret.value.kind = "reject" =>
              /\ ret.value.message = TransparencyMessage
              /\ Surface /\ call.env.readable /\ SampledPixelBelow(250)
        /\ ~Surface => ret.value = Resolve(call.base64Str)
        /\ (Surface /\ ~call.env.encodes /\ ret.value.kind # "reject") =>
              ret.value = Resolve(call.base64Str)

C17_Witness ==
    /\ ret.settled
    /\ Surface /\ call.env.readable /\ ~call.env.encodes
    /\ call.env.data = PixelBytes(<<250, 249>>)
    /\ ret.value = Resolve(call.base64Str)

(***************************************************************************)
(* C18: with a rendering surface and a readable pixel buffer,              *)
(* preprocessImage rejects exactly when a sampled alpha byte (bytes 3, 19, *)
(* 35, ...: every 4th pixel) is below 250; 250 itself passes; otherwise    *)
(* the image comes back re-encoded as JPEG (the encoding not failing).     *)
(***************************************************************************)
C18_RejectsExactlySampledTransparency ==
    (ret.settled /\ Surface /\ call.env.readable) =>
        /\ ret.value.kind = "reject" <=> SampledPixelBelow(250)
        /\ (~SampledPixelBelow(250) /\ call.env.encodes) =>
              /\ ret.value.kind = "resolve"
              /\ ret.value.image.mime = "image/jpeg"
              /\ ret.value.image # call.base64Str

C18_Witness ==
    /\ ret.settled
    /\ Surface /\ call.env.readable /\ call.env.encodes
    /\ call.env.data = PixelBytes(<<250, 249, 249, 249, 250>>)
    /\ ret.value.kind = "resolve"
    /\ ret.value.image.mime = "image/jpeg"

(***************************************************************************)
(* C19 as stated: every image preprocessImage returns has no alpha channel *)
(* and a known media type.                                                 *)
(***************************************************************************)
KnownMediaTypes == {"image/png", "image/jpeg"}

C19_Original ==
    (ret.settled /\ ret.value.kind = "resolve") =>
        /\ ~AlphaChannel(ret.value.image)
        /\ ret.value.image.mime \in KnownMediaTypes

(***************************************************************************)
(* C19 amended: an image preprocessImage returns has a known media type;   *)
(* when the canvas was drawn and encoded it is a JPEG without alpha        *)
(* channel, and in every fallback (no surface, load failure, no context,   *)
(* drawing or encoding throws) it is the input unchanged, alpha channel    *)
(* included.                                                               *)
(***************************************************************************)
C19_OpaqueOnlyWhenReencoded ==
    (ret.settled /\ ret.value.kind = "resolve") =>
        /\ ret.value.image.mime \in KnownMediaTypes
        /\ (Surface /\ call.env.encodes) =>
              (ret.value.image.mime = "image/jpeg" /\ ~AlphaChannel(ret.value.image))
        /\ ~(Surface /\ call.env.encodes) =>
              (ret.value.image = call.base64Str
               /\ AlphaChannel(ret.value.image) = AlphaChannel(call.base64Str))

C19_Witness ==
    /\ ret.settled
    /\ ~call.env.hasDOM
    /\ call.env.data = PixelBytes(<<249>>)
    /\ ret.value = Resolve(call.base64Str)
    /\ AlphaChannel(ret.value.image)

(***************************************************************************)
(* The App with the confirmation dialog.  generatePlate is seen from its   *)
(* caller: a call made with a request is in flight until it settles with   *)
(* one of the outcomes generatePlate has for that request.  An image it    *)
(* returns is written as the request it was generated for.  Handlers run   *)
(* on the state of the latest render.  No control of the page is disabled  *)
(* while a call is in flight except the submit button, so selecting an     *)
(* image, switching the mode and typing are possible at any time.          *)
(***************************************************************************)
MaxInflight == 2

AppImages == {"car-1", "car-2"}
AppNumbers == {<<>>, <<"a", "1">>}
AppCountries == {"", "Germany"}
FieldsMessage == "Please fill in all text fields."
UnexpectedMessage == "An unexpected error occurred."
ProgressStatuses == {"Generating plate..."}

Ran(handler) == [handler |-> handler, skipDetection |-> FALSE, outcome |-> ""]
SettledWith(request, outcome) ==
    [handler |-> "generatePlate", skipDetection |-> request.skipDetection,
     outcome |-> IF outcome.rejected THEN outcome.message ELSE "resolved"]

\* the arguments handleGenerate passes to generatePlate
RequestOf(st, skip) ==
    [imageBase64 |-> st.originalImage, plateNumber |-> st.plateNumber,
     plateCountry |-> st.plateCountry, mode |-> st.mode, skipDetection |-> skip]

\* the image generatePlate returns for a request
RenderingOf(request) ==
    [source |-> request.imageBase64, number |-> request.plateNumber,
     country |-> request.plateCountry, mode |-> request.mode]

Resolved(img) == [rejected |-> FALSE, value |-> img, message |-> ""]
Rejected(msg) == [rejected |-> TRUE, value |-> NoRendering, message |-> msg]

\* how a call of generatePlate can settle: an image, a failure, or the
\* confirmation signal when the detector is consulted
generatePlateOutcomes(request) ==
    {Resolved(RenderingOf(request)), Rejected(TransparencyMessage), Rejected(GenericMessage)}
    \cup (IF NeedsDetection(request.mode, request.skipDetection)
          THEN {Rejected(ConfirmationMessage)} ELSE {})

handleImageSelect(base64) ==
    state' = [state EXCEPT !.originalImage = base64, !.generatedImage = NoRendering,
                           !.error = NoMessage, !.statusMessage = ""]

handleModeSwitch(m) ==
    state' = [state EXCEPT !.mode = m, !.error = NoMessage, !.statusMessage = "",
                           !.generatedImage = NoRendering]

\* handleGenerate up to the await of generatePlate
handleGenerate(skip) ==
    IF state.originalImage = NoSelection
    THEN UNCHANGED <<state, inflight>>
    ELSE IF state.plateNumber = <<>> \/ state.plateCountry = ""
         THEN /\ state' = [state EXCEPT !.isGenerating = FALSE, !.error = FieldsMessage,
                                        !.statusMessage = "Initializing..."]
              /\ inflight' = inflight
         ELSE /\ state' = [state EXCEPT !.isGenerating = TRUE, !.error = NoMessage,
                                        !.statusMessage = "Initializing..."]
              /\ inflight' = inflight (+) SetToBag({RequestOf(state, skip)})

\* handleGenerate after the await: the result, the confirmation signal, or an error
AfterGeneratePlate(outcome) ==
    IF ~outcome.rejected
    THEN /\ state' = [state EXCEPT !.generatedImage = outcome.value, !.isGenerating = FALSE,
                                   !.statusMessage = "Complete!"]
         /\ UNCHANGED showConfirmation
    ELSE IF outcome.message = ConfirmationMessage
         THEN /\ showConfirmation' = TRUE
              /\ state' = [state EXCEPT !.isGenerating = FALSE, !.statusMessage = ""]
         ELSE /\ state' = [state EXCEPT !.isGenerating = FALSE,
                                        !.error = IF outcome.message = "" THEN UnexpectedMessage
                                                  ELSE outcome.message]
              /\ UNCHANGED showConfirmation

\* mutant: the confirmed request consults the detector again
handleConfirmAdd_NoSkip ==
    /\ showConfirmation' = FALSE
    /\ handleGenerate(FALSE)

handleConfirmAdd ==
    /\ showConfirmation' = FALSE
    /\ handleGenerate(TRUE)

handleSwitchToReplace ==
    /\ showConfirmation' = FALSE
    /\ handleModeSwitch("replace")

\* the submit button: disabled={!originalImage || !plateNumber || !plateCountry || isLoading}
SubmitEnabled ==
    /\ ~state.isGenerating
    /\ state.originalImage # NoSelection
    /\ state.plateNumber # <<>>
    /\ state.plateCountry # ""

\* FileReader's onloadend: the data URL of the chosen file, or null when reading failed
ImageSelected(base64) ==
    /\ handleImageSelect(base64)
    /\ lastEvent' = Ran("handleImageSelect")
    /\ UNCHANGED <<showConfirmation, inflight, service, call, ret>>

ModeTabClicked(m) ==
    /\ handleModeSwitch(m)
    /\ lastEvent' = Ran("handleModeSwitch")
    /\ UNCHANGED <<showConfirmation, inflight, service, call, ret>>

CountryTyped(v) ==
    /\ state' = [state EXCEPT !.plateCountry = v]
    /\ lastEvent' = Ran("plateCountry")
    /\ UNCHANGED <<showConfirmation, inflight, service, call, ret>>

NumberTyped(v) ==
    /\ state' = [state EXCEPT !.plateNumber = toUpperCase(v)]
    /\ lastEvent' = Ran("plateNumber")
    /\ UNCHANGED <<showConfirmation, inflight, service, call, ret>>

Submitted ==
    /\ SubmitEnabled
    /\ BagCardinality(inflight) < MaxInflight
    /\ handleGenerate(FALSE)
    /\ lastEvent' = Ran("handleGenerate")
    /\ UNCHANGED <<showConfirmation, service, call, ret>>

ConfirmAddClicked ==
    /\ showConfirmation
    /\ BagCardinality(inflight) < MaxInflight
    /\ handleConfirmAdd
    /\ lastEvent' = Ran("handleConfirmAdd")
    /\ UNCHANGED <<service, call, ret>>

SwitchToReplaceClicked ==
    /\ showConfirmation
    /\ handleSwitchToReplace
    /\ lastEvent' = Ran("handleSwitchToReplace")
    /\ UNCHANGED <<inflight, service, call, ret>>

\* the progress callback of a call in flight
StatusReported(request, status) ==
    /\ BagIn(request, inflight)
    /\ state' = [state EXCEPT !.statusMessage = status]
    /\ lastEvent' = Ran("onProgress")
    /\ UNCHANGED <<showConfirmation, inflight, service, call, ret>>

\* a call in flight settles and handleGenerate resumes
PlateSettled(request, outcome) ==
    /\ BagIn(request, inflight)
    /\ inflight' = inflight (-) SetToBag({request})
    /\ AfterGeneratePlate(outcome)
    /\ lastEvent' = SettledWith(request, outcome)
    /\ UNCHANGED <<service, call, ret>>

InitApp ==
    /\ Idle
    /\ apiKey
    /\ call = NoCall
    /\ ret = NoRet
    /\ AppIdle

NextApp ==
    \/ \E base64 \in AppImages \cup {NoSelection} : ImageSelected(base64)
    \/ \E m \in Modes : ModeTabClicked(m)
    \/ \E v \in AppCountries : CountryTyped(v)
    \/ \E v \in AppNumbers : NumberTyped(v)
    \/ Submitted
    \/ ConfirmAddClicked
    \/ SwitchToReplaceClicked
    \/ \E request \in BagToSet(inflight), status \in ProgressStatuses :
          StatusReported(request, status)
    \/ \E request \in BagToSet(inflight) :
          \E outcome \in generatePlateOutcomes(request) : PlateSettled(request, outcome)

SpecApp == InitApp /\ [][NextApp]_vars

(***************************************************************************)
(* C27 as stated: when generatePlate ends with the confirmation signal the *)
(* dialog opens, isGenerating becomes false and no error is set; 'Yes, Add *)
(* Plate' calls generatePlate again with skipDetection = true, and that    *)
(* call does not end with the signal; 'No, switch to Replace' sets the     *)
(* mode to replace and calls nothing.                                      *)
(***************************************************************************)
SignalHandled ==
    (lastEvent'.handler = "generatePlate" /\ lastEvent'.outcome = ConfirmationMessage) =>
        /\ showConfirmation'
        /\ ~state'.isGenerating
        /\ state'.error = state.error
        /\ state'.generatedImage = state.generatedImage
        /\ ~lastEvent'.skipDetection
SkippedNeverSignals ==
    (lastEvent'.handler = "generatePlate" /\ lastEvent'.skipDetection) =>
        lastEvent'.outcome # ConfirmationMessage
Reinvoked ==
    /\ inflight' = inflight (+) SetToBag({RequestOf(state, TRUE)})
    /\ state'.isGenerating
    /\ state'.error = NoMessage
SwitchCallsNothing ==
    lastEvent'.handler = "handleSwitchToReplace" =>
        /\ ~showConfirmation'
        /\ state'.mode = "replace"
        /\ inflight' = inflight

ConfirmationFlowAsStated ==
    /\ SignalHandled
    /\ SkippedNeverSignals
    /\ lastEvent'.handler = "handleConfirmAdd" => (~showConfirmation' /\ Reinvoked)
    /\ SwitchCallsNothing

C27_Original == [][ConfirmationFlowAsStated]_vars

(***************************************************************************)
(* C27 amended: as stated, except that 'Yes, Add Plate' calls              *)
(* generatePlate again (with skipDetection = true) only when an image is   *)
(* selected and both text fields are filled at that moment; with an empty  *)
(* field it reports "Please fill in all text fields." and with no image    *)
(* it does nothing, in both cases without a call.  The handler of the      *)
(* signal leaves the error message as it was.                              *)
(***************************************************************************)
ConfirmationFlow ==
    /\ SignalHandled
    /\ SkippedNeverSignals
    /\ lastEvent'.handler = "handleConfirmAdd" =>
          /\ ~showConfirmation'
          /\ IF state.originalImage = NoSelection
             THEN inflight' = inflight /\ state' = state
             ELSE IF state.plateNumber = <<>> \/ state.plateCountry = ""
                  THEN /\ inflight' = inflight
                       /\ state'.error = FieldsMessage
                       /\ ~state'.isGenerating
                  ELSE Reinvoked
    /\ SwitchCallsNothing

C27_ConfirmationFlow == [][ConfirmationFlow]_vars

C27_Witness ==
    /\ lastEvent.handler = "handleConfirmAdd"
    /\ ~showConfirmation
    /\ state.isGenerating
    /\ BagIn(RequestOf(state, TRUE), inflight)
    /\ state.mode = "add"

(***************************************************************************)
(* C30: whenever generatedImage is set it is the result of a generation    *)
(* run on the image and in the mode that are now selected.                 *)
(***************************************************************************)
C30_ResultBelongsToSelection ==
    state.generatedImage # NoRendering =>
        /\ state.generatedImage.source = state.originalImage
        /\ state.generatedImage.mode = state.mode

====
